---- MODULE Spec2Model ----
(***************************************************************************)
(* A model of myparse: the lexer (src/src/lexer.rs), the recursive-descent *)
(* parser (src/src/parser.rs), the evaluator (src/src/interpreter.rs) and  *)
(* the read-eval-print loop that chains them (src/src/lib.rs).             *)
(*                                                                         *)
(* Bytes are one-character strings.  Offsets are 0-based as in the code;   *)
(* the byte at offset p of a line is line[p + 1].  A Result is a record    *)
(* with a tag: "Ok", "Err", or "Panic" for a Rust panic (a failed assert!, *)
(* unwrap() of an Err, an arithmetic overflow check), which unwinds the    *)
(* whole call stack.                                                       *)
(*                                                                         *)
(* u64 and i64 do not fit TLC's integers, so a machine integer is kept as  *)
(* an exact decimal magnitude (most significant digit first, no leading    *)
(* zero, <<0>> for zero) with a sign, and the 64-bit limits are applied to *)
(* that.                                                                   *)
(***************************************************************************)
EXTENDS Integers, Sequences, FiniteSets, TLC

(***************************************************************************)
(* Bounds of the model.                                                    *)
(***************************************************************************)
\* lines over every byte class are enumerated up to this length
MaxLen == 3
\* generated syntax trees hold at most this many operators
MaxOps == 2

(***************************************************************************)
(* Exact decimal arithmetic on magnitudes.                                 *)
(***************************************************************************)
RECURSIVE Norm(_)
Norm(d) ==
    IF Len(d) = 0 THEN <<0>>
    ELSE IF Len(d) > 1 /\ d[1] = 0 THEN Norm(Tail(d))
    ELSE d

RECURSIVE MagCmpSame(_, _)
\* -1, 0, 1 for two digit sequences of the same length
MagCmpSame(a, b) ==
    IF Len(a) = 0 THEN 0
    ELSE IF a[1] < b[1] THEN -1
    ELSE IF a[1] > b[1] THEN 1
    ELSE MagCmpSame(Tail(a), Tail(b))

MagCmp(a, b) ==
    IF Len(a) < Len(b) THEN -1
    ELSE IF Len(a) > Len(b) THEN 1
    ELSE MagCmpSame(a, b)

MagLe(a, b) == MagCmp(a, b) <= 0
MagLt(a, b) == MagCmp(a, b) < 0

Front(d) == SubSeq(d, 1, Len(d) - 1)
Last(d) == d[Len(d)]

RECURSIVE MagAddC(_, _, _)
\* a + b + carry, digit by digit from the least significant end
MagAddC(a, b, c) ==
    IF Len(a) = 0 /\ Len(b) = 0 THEN (IF c = 0 THEN <<>> ELSE <<c>>)
    ELSE LET x == IF Len(a) = 0 THEN 0 ELSE Last(a)
             y == IF Len(b) = 0 THEN 0 ELSE Last(b)
             s == x + y + c
             ra == IF Len(a) = 0 THEN <<>> ELSE Front(a)
             rb == IF Len(b) = 0 THEN <<>> ELSE Front(b)
         IN  Append(MagAddC(ra, rb, s \div 10), s % 10)

MagAdd(a, b) == Norm(MagAddC(a, b, 0))

RECURSIVE MagSubB(_, _, _)
\* a - b - borrow for a >= b
MagSubB(a, b, c) ==
    IF Len(a) = 0 THEN <<>>
    ELSE LET x == Last(a)
             y == IF Len(b) = 0 THEN 0 ELSE Last(b)
             s == x - y - c
             rb == IF Len(b) = 0 THEN <<>> ELSE Front(b)
         IN  IF s < 0
             THEN Append(MagSubB(Front(a), rb, 1), s + 10)
             ELSE Append(MagSubB(Front(a), rb, 0), s)

MagSub(a, b) == Norm(MagSubB(a, b, 0))

RECURSIVE MagMulDigit(_, _, _)
\* a * k + carry for one digit k
MagMulDigit(a, k, c) ==
    IF Len(a) = 0 THEN (IF c = 0 THEN <<>> ELSE <<c>>)
    ELSE LET s == Last(a) * k + c
         IN  Append(MagMulDigit(Front(a), k, s \div 10), s % 10)

RECURSIVE MagMul(_, _)
MagMul(a, b) ==
    IF Len(b) = 0 THEN <<0>>
    ELSE MagAdd(Norm(Append(MagMul(a, Front(b)), 0)),
                Norm(MagMulDigit(a, Last(b), 0)))

RECURSIVE MagDigitQuot(_, _, _)
\* how many times b can be taken from r (at most 9 times)
MagDigitQuot(r, b, k) ==
    IF MagLt(r, b) THEN [q |-> k, r |-> r]
    ELSE MagDigitQuot(MagSub(r, b), b, k + 1)

RECURSIVE MagDivMod(_, _)
\* long division of a by b # 0: [q |-> quotient, r |-> remainder]
MagDivMod(a, b) ==
    IF Len(a) = 0 THEN [q |-> <<0>>, r |-> <<0>>]
    ELSE LET up == MagDivMod(Front(a), b)
             cur == Norm(Append(up.r, Last(a)))
             step == MagDigitQuot(cur, b, 0)
         IN  [q |-> Norm(Append(up.q, step.q)), r |-> step.r]

\* 2^64 - 1, 2^64, 2^63 - 1 and 2^63
U64Max == <<1, 8, 4, 4, 6, 7, 4, 4, 0, 7, 3, 7, 0, 9, 5, 5, 1, 6, 1, 5>>
TwoPow64 == <<1, 8, 4, 4, 6, 7, 4, 4, 0, 7, 3, 7, 0, 9, 5, 5, 1, 6, 1, 6>>
I64Max == <<9, 2, 2, 3, 3, 7, 2, 0, 3, 6, 8, 5, 4, 7, 7, 5, 8, 0, 7>>
TwoPow63 == <<9, 2, 2, 3, 3, 7, 2, 0, 3, 6, 8, 5, 4, 7, 7, 5, 8, 0, 8>>

(***************************************************************************)
(* lexer.rs                                                                *)
(***************************************************************************)
Loc(s, e) == <<s, e>>
Annot(value, loc) == [value |-> value, loc |-> loc]

Min2(a, b) == IF a <= b THEN a ELSE b
Max2(a, b) == IF a >= b THEN a ELSE b

\* Loc::merge: the assert! panics when the two spans neither overlap nor touch
Loc_merge(self, other) ==
    IF Max2(self[1], other[1]) <= Min2(self[2], other[2])
    THEN [tag |-> "Ok", loc |-> Loc(Min2(self[1], other[1]), Max2(self[2], other[2]))]
    ELSE [tag |-> "Panic"]

DigitBytes == {"0", "1", "2", "3", "4", "5", "6", "7", "8", "9"}
SpaceBytes == {" ", "\n", "\t"}
DigitSeq == <<"0", "1", "2", "3", "4", "5", "6", "7", "8", "9">>
DigitVal(b) == (CHOOSE i \in 1..10 : DigitSeq[i] = b) - 1

Token_number(n, loc) == Annot(<<"Number", n>>, loc)
Token_plus(loc) == Annot(<<"Plus">>, loc)
Token_minus(loc) == Annot(<<"Minus">>, loc)
Token_asterisk(loc) == Annot(<<"Asterisk">>, loc)
Token_slash(loc) == Annot(<<"Slash">>, loc)
Token_lparen(loc) == Annot(<<"LParen">>, loc)
Token_rparen(loc) == Annot(<<"RParen">>, loc)

LexError_invalid_char(c, loc) == Annot(<<"InvalidChar", c>>, loc)
LexError_eof(loc) == Annot(<<"Eof">>, loc)

\* Lexer::consume_byte; pos is the cursor before, the result carries it after
consume_byte(input, pos, b) ==
    IF Len(input) <= pos
    THEN [tag |-> "Err", err |-> LexError_eof(Loc(pos, pos)), pos |-> pos]
    ELSE IF input[pos + 1] # b
    THEN [tag |-> "Err",
          err |-> LexError_invalid_char(input[pos + 1], Loc(pos, pos + 1)),
          pos |-> pos]
    ELSE [tag |-> "Ok", end |-> pos + 1, pos |-> pos + 1]

RECURSIVE recognize_many(_, _, _)
\* Lexer::recognize_many with f = membership in accept; the cursor's new value
recognize_many(input, pos, accept) ==
    IF pos < Len(input) /\ input[pos + 1] \in accept
    THEN recognize_many(input, pos + 1, accept)
    ELSE pos

\* Lexer::lex_plus
lex_plus(input, pos) ==
    LET r == consume_byte(input, pos, "+")
    IN  IF r.tag = "Ok"
        THEN [tag |-> "Ok", tok |-> Token_plus(Loc(r.end - 1, r.end)), pos |-> r.pos]
        ELSE r

\* Lexer::lex_minus
lex_minus(input, pos) ==
    LET r == consume_byte(input, pos, "-")
    IN  IF r.tag = "Ok"
        THEN [tag |-> "Ok", tok |-> Token_minus(Loc(r.end - 1, r.end)), pos |-> r.pos]
        ELSE r

\* Lexer::lex_asterisk
lex_asterisk(input, pos) ==
    LET r == consume_byte(input, pos, "*")
    IN  IF r.tag = "Ok"
        THEN [tag |-> "Ok", tok |-> Token_asterisk(Loc(r.end - 1, r.end)), pos |-> r.pos]
        ELSE r

\* Lexer::lex_slash
lex_slash(input, pos) ==
    LET r == consume_byte(input, pos, "/")
    IN  IF r.tag = "Ok"
        THEN [tag |-> "Ok", tok |-> Token_slash(Loc(r.end - 1, r.end)), pos |-> r.pos]
        ELSE r

\* Lexer::lex_lparen
lex_lparen(input, pos) ==
    LET r == consume_byte(input, pos, "(")
    IN  IF r.tag = "Ok"
        THEN [tag |-> "Ok", tok |-> Token_lparen(Loc(r.end - 1, r.end)), pos |-> r.pos]
        ELSE r

\* Lexer::lex_rparen
lex_rparen(input, pos) ==
    LET r == consume_byte(input, pos, ")")
    IN  IF r.tag = "Ok"
        THEN [tag |-> "Ok", tok |-> Token_rparen(Loc(r.end - 1, r.end)), pos |-> r.pos]
        ELSE r

\* str::parse::<u64> of a non-empty run of ASCII digits: Err on overflow
parse_u64(digits) ==
    LET n == Norm([i \in 1..Len(digits) |-> DigitVal(digits[i])])
    IN  IF MagLe(n, U64Max) THEN [tag |-> "Ok", n |-> n] ELSE [tag |-> "Err"]

\* Lexer::lex_number; parse().unwrap() panics when the run exceeds u64
lex_number(input, pos) ==
    LET start == pos
        end == recognize_many(input, pos, DigitBytes)
        n == parse_u64(SubSeq(input, start + 1, end))
    IN  IF n.tag = "Ok"
        THEN [tag |-> "Ok", tok |-> Token_number(n.n, Loc(start, end)), pos |-> end]
        ELSE [tag |-> "Panic", pos |-> end]

\* Lexer::skip_spaces
skip_spaces(input, pos) ==
    [tag |-> "Ok", pos |-> recognize_many(input, pos, SpaceBytes)]

\* the lexer method the match in Lexer::lex picks for a token's first byte
lex_a_token(input, pos) ==
    LET b == input[pos + 1]
    IN  IF b \in DigitBytes THEN lex_number(input, pos)
        ELSE IF b = "+" THEN lex_plus(input, pos)
        ELSE IF b = "-" THEN lex_minus(input, pos)
        ELSE IF b = "*" THEN lex_asterisk(input, pos)
        ELSE IF b = "/" THEN lex_slash(input, pos)
        ELSE IF b = "(" THEN lex_lparen(input, pos)
        ELSE lex_rparen(input, pos)

TokenStartBytes == DigitBytes \cup {"+", "-", "*", "/", "(", ")"}

RECURSIVE lex_loop(_, _, _)
\* the loop of Lexer::lex from cursor pos with the tokens pushed so far
lex_loop(input, pos, tokens) ==
    IF Len(input) <= pos THEN [tag |-> "Ok", tokens |-> tokens, pos |-> pos]
    ELSE LET b == input[pos + 1]
         IN  IF b \in TokenStartBytes
             THEN LET r == lex_a_token(input, pos)
                  IN  IF r.tag = "Ok"
                      THEN lex_loop(input, r.pos, Append(tokens, r.tok))
                      ELSE r
             ELSE IF b \in SpaceBytes
             THEN lex_loop(input, skip_spaces(input, pos).pos, tokens)
             ELSE [tag |-> "Err",
                   err |-> LexError_invalid_char(b, Loc(pos, pos + 1)),
                   pos |-> pos]

\* Lexer::new(input).lex()
lex(input) == lex_loop(input, 0, <<>>)

(***************************************************************************)
(* parser.rs                                                               *)
(*                                                                         *)
(* The Peekable token iterator is the sequence of the tokens not yet       *)
(* taken: peek() is its head, next() takes the head off.  A parser's       *)
(* result carries the iterator as the call left it, in rest.               *)
(***************************************************************************)
Ast_num(n, loc) == Annot(<<"Num", n>>, loc)
Ast_uniop(op, e, loc) == Annot(<<"UniOp", op, e>>, loc)
Ast_binop(op, l, r, loc) == Annot(<<"BinOp", op, l, r>>, loc)

UniOp_plus(loc) == Annot("Plus", loc)
UniOp_minus(loc) == Annot("Minus", loc)

BinOp_add(loc) == Annot("Add", loc)
BinOp_sub(loc) == Annot("Sub", loc)
BinOp_mul(loc) == Annot("Mul", loc)
BinOp_div(loc) == Annot("Div", loc)

POk(ast, rest) == [tag |-> "Ok", ast |-> ast, rest |-> rest]
PErr(err, rest) == [tag |-> "Err", err |-> err, rest |-> rest]
PPanic(rest) == [tag |-> "Panic", rest |-> rest]

\* parse_expr3_op: "+" or "-" taken as a binary operator, else NotOperator
parse_expr3_op(tokens) ==
    IF tokens = <<>> THEN PErr(<<"Eof">>, tokens)
    ELSE LET token == Head(tokens)
         IN  IF token.value = <<"Plus">>
             THEN [tag |-> "Ok", op |-> BinOp_add(token.loc), rest |-> Tail(tokens)]
             ELSE IF token.value = <<"Minus">>
             THEN [tag |-> "Ok", op |-> BinOp_sub(token.loc), rest |-> Tail(tokens)]
             ELSE PErr(<<"NotOperator", token>>, tokens)

\* parse_expr2_op: "*" or "/" taken as a binary operator, else NotOperator
parse_expr2_op(tokens) ==
    IF tokens = <<>> THEN PErr(<<"Eof">>, tokens)
    ELSE LET token == Head(tokens)
         IN  IF token.value = <<"Asterisk">>
             THEN [tag |-> "Ok", op |-> BinOp_mul(token.loc), rest |-> Tail(tokens)]
             ELSE IF token.value = <<"Slash">>
             THEN [tag |-> "Ok", op |-> BinOp_div(token.loc), rest |-> Tail(tokens)]
             ELSE PErr(<<"NotOperator", token>>, tokens)

RECURSIVE parse_expr3(_)
RECURSIVE parse_expr2(_)
RECURSIVE parse_expr1(_)
RECURSIVE parse_atom(_)
RECURSIVE parse_left_binop(_, _, _)
RECURSIVE expr_loop(_, _, _, _)

\* a call through the fn pointer subexpr_parser of parse_left_binop
call_subexpr_parser(subexpr_parser, tokens) ==
    IF subexpr_parser = "parse_expr2" THEN parse_expr2(tokens)
    ELSE parse_expr1(tokens)

\* a call through the fn pointer op_parser of parse_left_binop
call_op_parser(op_parser, tokens) ==
    IF op_parser = "parse_expr3_op" THEN parse_expr3_op(tokens)
    ELSE parse_expr2_op(tokens)

\* faulty variant: the operator recognizer's error is passed on with ? instead of
\* ending the loop
expr_loop_op_error_propagates(tokens, e, subexpr_parser, op_parser) ==
    IF tokens = <<>> THEN POk(e, tokens)
    ELSE LET op == call_op_parser(op_parser, tokens)
         IN  IF op.tag # "Ok" THEN op
             ELSE LET r == call_subexpr_parser(subexpr_parser, op.rest)
                  IN  IF r.tag # "Ok" THEN r
                      ELSE LET loc == Loc_merge(e.loc, r.ast.loc)
                           IN  IF loc.tag = "Panic" THEN PPanic(r.rest)
                               ELSE expr_loop(r.rest,
                                              Ast_binop(op.op, e, r.ast, loc.loc),
                                              subexpr_parser, op_parser)

\* the loop of parse_left_binop with e the tree folded so far
expr_loop(tokens, e, subexpr_parser, op_parser) ==
    IF tokens = <<>> THEN POk(e, tokens)
    ELSE LET op == call_op_parser(op_parser, tokens)
         IN  IF op.tag # "Ok" THEN POk(e, op.rest)
             ELSE LET r == call_subexpr_parser(subexpr_parser, op.rest)
                  IN  IF r.tag # "Ok" THEN r
                      ELSE LET loc == Loc_merge(e.loc, r.ast.loc)
                           IN  IF loc.tag = "Panic" THEN PPanic(r.rest)
                               ELSE expr_loop(r.rest,
                                              Ast_binop(op.op, e, r.ast, loc.loc),
                                              subexpr_parser, op_parser)

parse_left_binop(tokens, subexpr_parser, op_parser) ==
    LET e == call_subexpr_parser(subexpr_parser, tokens)
    IN  IF e.tag # "Ok" THEN e
        ELSE expr_loop(e.rest, e.ast, subexpr_parser, op_parser)

parse_expr3(tokens) == parse_left_binop(tokens, "parse_expr2", "parse_expr3_op")

parse_expr2(tokens) == parse_left_binop(tokens, "parse_expr1", "parse_expr2_op")

parse_expr1(tokens) ==
    IF tokens # <<>> /\ Head(tokens).value \in {<<"Plus">>, <<"Minus">>}
    THEN LET token == Head(tokens)
             op == IF token.value = <<"Plus">> THEN UniOp_plus(token.loc)
                   ELSE UniOp_minus(token.loc)
             e == parse_atom(Tail(tokens))
         IN  IF e.tag # "Ok" THEN e
             ELSE LET loc == Loc_merge(op.loc, e.ast.loc)
                  IN  IF loc.tag = "Panic" THEN PPanic(e.rest)
                      ELSE POk(Ast_uniop(op, e.ast, loc.loc), e.rest)
    ELSE parse_atom(tokens)

parse_atom(tokens) ==
    IF tokens = <<>> THEN PErr(<<"Eof">>, tokens)
    ELSE LET token == Head(tokens)
         IN  IF token.value[1] = "Number"
             THEN POk(Ast_num(token.value[2], token.loc), Tail(tokens))
             ELSE IF token.value = <<"LParen">>
             THEN LET e == parse_expr3(Tail(tokens))
                  IN  IF e.tag # "Ok" THEN e
                      ELSE IF e.rest = <<>>
                      THEN PErr(<<"UnclosedOpenParen", token>>, e.rest)
                      ELSE IF Head(e.rest).value = <<"RParen">>
                      THEN POk(e.ast, Tail(e.rest))
                      ELSE PErr(<<"RedundantExpression", Head(e.rest)>>, Tail(e.rest))
             ELSE PErr(<<"NotExpression", token>>, Tail(tokens))

parse_expr(tokens) == parse_expr3(tokens)

\* faulty variant: the tree is returned without looking for a leftover token
parse_without_leftover_check(tokens) == parse_expr(tokens)

parse(tokens) ==
    LET ret == parse_expr(tokens)
    IN  IF ret.tag # "Ok" THEN ret
        ELSE IF ret.rest # <<>>
        THEN PErr(<<"RedundantExpression", Head(ret.rest)>>, Tail(ret.rest))
        ELSE POk(ret.ast, ret.rest)

(***************************************************************************)
(* interpreter.rs                                                          *)
(*                                                                         *)
(* An i64 is a sign and a magnitude; zero is never negative.               *)
(***************************************************************************)
SInt(neg, mag) == [neg |-> neg /\ mag # <<0>>, mag |-> mag]

IntNeg(a) == SInt(~a.neg, a.mag)

IntAdd(a, b) ==
    IF a.neg = b.neg THEN SInt(a.neg, MagAdd(a.mag, b.mag))
    ELSE IF MagLe(b.mag, a.mag) THEN SInt(a.neg, MagSub(a.mag, b.mag))
    ELSE SInt(b.neg, MagSub(b.mag, a.mag))

IntSub(a, b) == IntAdd(a, IntNeg(b))

IntMul(a, b) == SInt(a.neg # b.neg, MagMul(a.mag, b.mag))

\* the quotient rounded toward zero, for b # 0
IntDivTrunc(a, b) == SInt(a.neg # b.neg, MagDivMod(a.mag, b.mag).q)

InI64(v) == IF v.neg THEN MagLe(v.mag, TwoPow63) ELSE MagLe(v.mag, I64Max)

\* the two's complement value of the low 64 bits of v
WrapI64(v) ==
    LET m == MagDivMod(v.mag, TwoPow64).r
        u == IF v.neg /\ m # <<0>> THEN MagSub(TwoPow64, m) ELSE m
    IN  IF MagLe(u, I64Max) THEN SInt(FALSE, u)
        ELSE SInt(TRUE, MagSub(TwoPow64, u))

\* n as i64 for a u64 n
as_i64(n) == WrapI64(SInt(FALSE, n))

\* an i64 +, -, * or unary - with the exact result given: out of range it
\* panics in a build with overflow checks and wraps in one without
i64_arith(exact, overflow_checks) ==
    IF InI64(exact) THEN [tag |-> "Ok", val |-> exact]
    ELSE IF overflow_checks THEN [tag |-> "Panic"]
    ELSE [tag |-> "Ok", val |-> WrapI64(exact)]

\* i64 l / r for r # 0: i64::MIN / -1 panics in every build
i64_div(l, r) ==
    LET exact == IntDivTrunc(l, r)
    IN  IF InI64(exact) THEN [tag |-> "Ok", val |-> exact] ELSE [tag |-> "Panic"]

Zero == SInt(FALSE, <<0>>)

eval_uniop(op, n, overflow_checks) ==
    IF op.value = "Plus" THEN [tag |-> "Ok", val |-> n]
    ELSE i64_arith(IntNeg(n), overflow_checks)

\* the quotient rounded toward minus infinity, for b # 0
IntDivFloor(a, b) ==
    LET d == MagDivMod(a.mag, b.mag)
    IN  IF a.neg # b.neg /\ d.r # <<0>> THEN SInt(TRUE, MagAdd(d.q, <<1>>))
        ELSE SInt(a.neg # b.neg, d.q)

\* faulty variant: the division rounds down instead of toward zero
eval_binop_floor_div(op, l, r, overflow_checks) ==
    IF op.value = "Add" THEN i64_arith(IntAdd(l, r), overflow_checks)
    ELSE IF op.value = "Sub" THEN i64_arith(IntSub(l, r), overflow_checks)
    ELSE IF op.value = "Mul" THEN i64_arith(IntMul(l, r), overflow_checks)
    ELSE IF r = Zero THEN [tag |-> "Err", kind |-> <<"DivisionByZero">>]
    ELSE i64_arith(IntDivFloor(l, r), TRUE)

eval_binop(op, l, r, overflow_checks) ==
    IF op.value = "Add" THEN i64_arith(IntAdd(l, r), overflow_checks)
    ELSE IF op.value = "Sub" THEN i64_arith(IntSub(l, r), overflow_checks)
    ELSE IF op.value = "Mul" THEN i64_arith(IntMul(l, r), overflow_checks)
    ELSE IF r = Zero THEN [tag |-> "Err", kind |-> <<"DivisionByZero">>]
    ELSE i64_div(l, r)

\* InterpreterError::new(err, loc) under map_err: Ok and a panic pass through
map_err(res, loc) ==
    IF res.tag = "Err" THEN [tag |-> "Err", err |-> Annot(res.kind, loc)] ELSE res

RECURSIVE eval(_, _)
\* faulty variant: a binary operator's error is given the operator's span
eval_error_at_operator(expr, overflow_checks) ==
    IF expr.value[1] = "Num" THEN [tag |-> "Ok", val |-> as_i64(expr.value[2])]
    ELSE IF expr.value[1] = "UniOp"
    THEN LET e == eval(expr.value[3], overflow_checks)
         IN  IF e.tag # "Ok" THEN e
             ELSE map_err(eval_uniop(expr.value[2], e.val, overflow_checks), expr.loc)
    ELSE LET l == eval(expr.value[3], overflow_checks)
         IN  IF l.tag # "Ok" THEN l
             ELSE LET r == eval(expr.value[4], overflow_checks)
                  IN  IF r.tag # "Ok" THEN r
                      ELSE map_err(eval_binop(expr.value[2], l.val, r.val,
                                              overflow_checks),
                                   expr.value[2].loc)

\* Interpreter::eval
eval(expr, overflow_checks) ==
    IF expr.value[1] = "Num" THEN [tag |-> "Ok", val |-> as_i64(expr.value[2])]
    ELSE IF expr.value[1] = "UniOp"
    THEN LET e == eval(expr.value[3], overflow_checks)
         IN  IF e.tag # "Ok" THEN e
             ELSE map_err(eval_uniop(expr.value[2], e.val, overflow_checks), expr.loc)
    ELSE LET l == eval(expr.value[3], overflow_checks)
         IN  IF l.tag # "Ok" THEN l
             ELSE LET r == eval(expr.value[4], overflow_checks)
                  IN  IF r.tag # "Ok" THEN r
                      ELSE map_err(eval_binop(expr.value[2], l.val, r.val,
                                              overflow_checks),
                                   expr.loc)

(***************************************************************************)
(* The lines read and the trees evaluated.                                 *)
(***************************************************************************)
\* bytes of every class the lexer tells apart: digits, the six punctuation
\* bytes, white space and a byte it rejects
InputBytes == {"0", "1", "+", "-", "*", "/", "(", ")", " ", "\t", "a"}
\* bytes that are each one token
TokenBytes == {"1", "+", "-", "*", "/", "(", ")"}

\* "1 + 2 * 3 - -10" of test_lexer and test_parser
TestLine == <<"1", " ", "+", " ", "2", " ", "*", " ", "3", " ", "-", " ", "-", "1", "0">>
\* further lines: unclosed and unopened parentheses with white space, and
\* literals at the limits of u64 and i64
ExampleLines ==
    { TestLine,
      <<"(", "1", " ", "+", " ", "2">>,
      <<"1", " ", "+", " ", "2", ")">>,
      <<"1", " ", "-", " ", "2">>,
      <<"1", "8", "4", "4", "6", "7", "4", "4", "0", "7", "3", "7", "0", "9", "5", "5", "1", "6", "1", "5">>,
      <<"1", "8", "4", "4", "6", "7", "4", "4", "0", "7", "3", "7", "0", "9", "5", "5", "1", "6", "1", "6">>,
      <<"1", "8", "4", "4", "6", "7", "4", "4", "0", "7", "3", "7", "0", "9", "5", "5", "1", "6", "1", "6", "a">>,
      <<"9", "2", "2", "3", "3", "7", "2", "0", "3", "6", "8", "5", "4", "7", "7", "5", "8", "0", "8">>,
      <<"-", "9", "2", "2", "3", "3", "7", "2", "0", "3", "6", "8", "5", "4", "7", "7", "5", "8", "0", "8">> }

\* the lines read: every line of at most n bytes, every line of n + 1
\* one-byte tokens, and the examples
Lines(n) ==
    UNION {[1..k -> InputBytes] : k \in 0..n}
        \cup [1..(n + 1) -> TokenBytes]
        \cup ExampleLines

\* literals at the leaves of the generated trees
LeafValues == {<<0>>, <<1>>, <<2>>}
UniOpKinds == {"Plus", "Minus"}
BinOpKinds == {"Add", "Sub", "Mul", "Div"}

RECURSIVE Shapes(_)
\* the trees with exactly k operators, without their spans
Shapes(k) ==
    IF k = 0 THEN {<<"Num", n>> : n \in LeafValues}
    ELSE {<<"UniOp", u, e>> : u \in UniOpKinds, e \in Shapes(k - 1)}
        \cup UNION {{<<"BinOp", b, l, r>> :
                        b \in BinOpKinds, l \in Shapes(i), r \in Shapes(k - 1 - i)} :
                    i \in 0..(k - 1)}

RECURSIVE Layout(_, _)
\* the tree of shape s written from offset o on with neither spaces nor
\* parentheses, each node spanning its operator and operands
Layout(s, o) ==
    IF s[1] = "Num" THEN Ast_num(s[2], Loc(o, o + Len(s[2])))
    ELSE IF s[1] = "UniOp"
    THEN LET e == Layout(s[3], o + 1)
         IN  Ast_uniop(Annot(s[2], Loc(o, o + 1)), e, Loc(o, e.loc[2]))
    ELSE LET l == Layout(s[3], o)
             r == Layout(s[4], l.loc[2] + 1)
         IN  Ast_binop(Annot(s[2], Loc(l.loc[2], l.loc[2] + 1)), l, r,
                       Loc(o, r.loc[2]))

\* the tree test_parser expects for TestLine
TestAst ==
    Ast_binop(BinOp_sub(Loc(10, 11)),
              Ast_binop(BinOp_add(Loc(2, 3)),
                        Ast_num(<<1>>, Loc(0, 1)),
                        Ast_binop(BinOp_mul(Loc(6, 7)),
                                  Ast_num(<<2>>, Loc(4, 5)),
                                  Ast_num(<<3>>, Loc(8, 9)),
                                  Loc(4, 9)),
                        Loc(0, 9)),
              Ast_uniop(UniOp_minus(Loc(12, 13)),
                        Ast_num(<<1, 0>>, Loc(13, 15)),
                        Loc(12, 15)),
              Loc(0, 15))

\* trees with two failing divisions side by side, and trees over literals at
\* the limits of i64
ExampleShapes ==
    { <<"BinOp", "Add", <<"BinOp", "Div", <<"Num", <<1>>>>, <<"Num", <<0>>>>>>,
                        <<"BinOp", "Div", <<"Num", <<2>>>>, <<"Num", <<0>>>>>>>>,
      <<"BinOp", "Div", <<"BinOp", "Div", <<"Num", <<2>>>>, <<"Num", <<0>>>>>>,
                        <<"BinOp", "Sub", <<"Num", <<1>>>>, <<"Num", <<1>>>>>>>>,
      <<"BinOp", "Mul", <<"Num", <<2>>>>,
                        <<"BinOp", "Div", <<"Num", <<1>>>>,
                                          <<"BinOp", "Sub", <<"Num", <<2>>>>, <<"Num", <<2>>>>>>>>>>,
      <<"Num", I64Max>>,
      <<"Num", TwoPow63>>,
      <<"Num", U64Max>>,
      <<"UniOp", "Minus", <<"Num", I64Max>>>>,
      <<"UniOp", "Minus", <<"Num", TwoPow63>>>>,
      <<"BinOp", "Add", <<"Num", I64Max>>, <<"Num", <<1>>>>>>,
      <<"BinOp", "Sub", <<"Num", TwoPow63>>, <<"Num", <<1>>>>>>,
      <<"BinOp", "Mul", <<"Num", I64Max>>, <<"Num", <<2>>>>>>,
      <<"BinOp", "Div", <<"Num", TwoPow63>>, <<"Num", U64Max>>>>,
      <<"BinOp", "Div", <<"Num", I64Max>>, <<"Num", <<2>>>>>> }

\* the trees evaluated: every tree of at most n operators over LeafValues,
\* and the examples
Asts(n) ==
    {Layout(s, 0) : s \in UNION {Shapes(k) : k \in 0..n}}
        \cup {Layout(s, 0) : s \in ExampleShapes}
        \cup {TestAst}

(***************************************************************************)
(* lib.rs: run reads a line, lexes and parses it and evaluates the tree,   *)
(* and goes on with the next line after a result or a diagnostic.  A panic *)
(* ends the process.                                                       *)
(***************************************************************************)
VARIABLES
    pc,       \* where run is: "prompt", "lex", "parse", "eval", "done" with the
              \* line, "exit", or "aborted" by a panic
    line,     \* the line read
    tokens,   \* what Lexer::lex returned for it
    ast,      \* what parse returned for the tokens
    result    \* what Interpreter::eval returned for the tree

vars == <<pc, line, tokens, ast, result>>

None == [tag |-> "None"]

Init ==
    /\ pc = "prompt"
    /\ line = <<>>
    /\ tokens = None
    /\ ast = None
    /\ result = None

\* lines.next() gives a line
ReadLine ==
    /\ pc = "prompt"
    /\ \E l \in Lines(MaxLen) : line' = l
    /\ pc' = "lex"
    /\ UNCHANGED <<tokens, ast, result>>

\* the loop's next round (after println!, or continue after a diagnostic):
\* the round's line, tokens, tree and value are dropped
Continue ==
    /\ pc = "done"
    /\ pc' = "prompt"
    /\ line' = <<>>
    /\ tokens' = None
    /\ ast' = None
    /\ result' = None

\* lines.next() gives None: run returns 0
Exit ==
    /\ pc = "prompt"
    /\ pc' = "exit"
    /\ UNCHANGED <<line, tokens, ast, result>>

\* where run goes on after a stage returned res
After(res, next) ==
    IF res.tag = "Ok" THEN next
    ELSE IF res.tag = "Err" THEN "done"
    ELSE "aborted"

Lex ==
    /\ pc = "lex"
    /\ tokens' = lex(line)
    /\ pc' = After(tokens', "parse")
    /\ UNCHANGED <<line, ast, result>>

Parse ==
    /\ pc = "parse"
    /\ ast' = parse(tokens.tokens)
    /\ pc' = After(ast', "eval")
    /\ UNCHANGED <<line, tokens, result>>

Eval ==
    /\ pc = "eval"
    /\ \E overflow_checks \in BOOLEAN : result' = eval(ast.ast, overflow_checks)
    /\ pc' = After(result', "done")
    /\ UNCHANGED <<line, tokens, ast>>

Next == ReadLine \/ Exit \/ Lex \/ Parse \/ Eval \/ Continue

Spec == Init /\ [][Next]_vars

\* Interpreter::eval on its own: it is handed a tree
InitEval ==
    /\ pc = "eval"
    /\ line = <<>>
    /\ tokens = None
    /\ \E a \in Asts(MaxOps) : ast = POk(a, <<>>)
    /\ result = None

NextEval == Eval

SpecEval == InitEval /\ [][NextEval]_vars

(***************************************************************************)
(* What the claims are stated with: the stages a state is past, the token  *)
(* boundaries of a line, the grammar, the tree it gives a token sequence,  *)
(* and evaluation over the integers.  None of it is taken from the code.   *)
(***************************************************************************)
Lexed == tokens.tag # "None"
Parsed == ast.tag # "None"
Evaluated == result.tag # "None"

PunctBytes == {"+", "-", "*", "/", "(", ")"}
ValidBytes == DigitBytes \cup PunctBytes \cup SpaceBytes

KindOfByte(b) ==
    IF b \in DigitBytes THEN "Number"
    ELSE IF b = "+" THEN "Plus"
    ELSE IF b = "-" THEN "Minus"
    ELSE IF b = "*" THEN "Asterisk"
    ELSE IF b = "/" THEN "Slash"
    ELSE IF b = "(" THEN "LParen"
    ELSE "RParen"

\* the offsets where a token starts: a punctuation byte, or the first digit of a run
TokStarts(l) ==
    {p \in 0..(Len(l) - 1) :
        \/ l[p + 1] \in PunctBytes
        \/ l[p + 1] \in DigitBytes /\ (p = 0 \/ l[p] \notin DigitBytes)}

\* the offset after the token that starts at p
TokEnd(l, p) ==
    IF l[p + 1] \in PunctBytes THEN p + 1
    ELSE CHOOSE e \in (p + 1)..Len(l) :
            /\ \A q \in p..(e - 1) : l[q + 1] \in DigitBytes
            /\ e = Len(l) \/ l[e + 1] \notin DigitBytes

\* the i-th smallest element of a set of numbers
Nth(S, i) == CHOOSE p \in S : Cardinality({q \in S : q < p}) = i - 1

\* the kinds of the tokens of line l, in order
LineKinds(l) ==
    [i \in 1..Cardinality(TokStarts(l)) |-> KindOfByte(l[Nth(TokStarts(l), i) + 1])]

\* toks are the tokens of line l: kind and span, in order of appearance
TokensMatch(l, toks) ==
    /\ Len(toks) = Cardinality(TokStarts(l))
    /\ \A i \in 1..Len(toks) :
        LET p == Nth(TokStarts(l), i)
        IN  /\ toks[i].value[1] = KindOfByte(l[p + 1])
            /\ toks[i].loc = <<p, TokEnd(l, p)>>

Kinds(toks) == [i \in 1..Len(toks) |-> toks[i].value[1]]

RECURSIVE IsAddSub(_)
RECURSIVE IsMulDiv(_)
RECURSIVE IsUnary(_)
RECURSIVE IsAtom(_)

\* the grammar of the parser's documentation, on token kinds:
\* Atom := Number | "(" Expr ")"
IsAtom(ks) ==
    \/ ks = <<"Number">>
    \/ /\ Len(ks) >= 3
       /\ ks[1] = "LParen"
       /\ ks[Len(ks)] = "RParen"
       /\ IsAddSub(SubSeq(ks, 2, Len(ks) - 1))

\* Unary := ("+" | "-")? Atom
IsUnary(ks) ==
    \/ IsAtom(ks)
    \/ Len(ks) >= 2 /\ ks[1] \in {"Plus", "Minus"} /\ IsAtom(Tail(ks))

\* MulDiv := Unary (("*" | "/") Unary)*
IsMulDiv(ks) ==
    \/ IsUnary(ks)
    \/ \E i \in 2..(Len(ks) - 1) :
        /\ ks[i] \in {"Asterisk", "Slash"}
        /\ IsUnary(SubSeq(ks, i + 1, Len(ks)))
        /\ IsMulDiv(SubSeq(ks, 1, i - 1))

\* Expr := AddSub := MulDiv (("+" | "-") MulDiv)*
IsAddSub(ks) ==
    \/ IsMulDiv(ks)
    \/ \E i \in 2..(Len(ks) - 1) :
        /\ ks[i] \in {"Plus", "Minus"}
        /\ IsMulDiv(SubSeq(ks, i + 1, Len(ks)))
        /\ IsAddSub(SubSeq(ks, 1, i - 1))

IsExpr(ks) == IsAddSub(ks)

\* the smallest span covering both
Cover(a, b) == <<Min2(a[1], b[1]), Max2(a[2], b[2])>>

BinKind(k) ==
    IF k = "Plus" THEN "Add"
    ELSE IF k = "Minus" THEN "Sub"
    ELSE IF k = "Asterisk" THEN "Mul"
    ELSE "Div"

RECURSIVE TreeAddSub(_)
RECURSIVE TreeMulDiv(_)
RECURSIVE TreeUnary(_)
RECURSIVE TreeAtom(_)

\* the tree of a token sequence that is an Atom
TreeAtom(toks) ==
    IF Len(toks) = 1 THEN Annot(<<"Num", toks[1].value[2]>>, toks[1].loc)
    ELSE TreeAddSub(SubSeq(toks, 2, Len(toks) - 1))

\* the tree of a token sequence that is a Unary
TreeUnary(toks) ==
    IF IsAtom(Kinds(toks)) THEN TreeAtom(toks)
    ELSE LET e == TreeAtom(Tail(toks))
         IN  Annot(<<"UniOp", Annot(toks[1].value[1], toks[1].loc), e>>,
                   Cover(toks[1].loc, e.loc))

\* the tree of a token sequence that is a MulDiv: the last "*" or "/" that
\* splits it is the root, so the chain leans left
TreeMulDiv(toks) ==
    IF IsUnary(Kinds(toks)) THEN TreeUnary(toks)
    ELSE LET i == CHOOSE j \in 2..(Len(toks) - 1) :
                    /\ toks[j].value[1] \in {"Asterisk", "Slash"}
                    /\ IsUnary(Kinds(SubSeq(toks, j + 1, Len(toks))))
                    /\ IsMulDiv(Kinds(SubSeq(toks, 1, j - 1)))
             l == TreeMulDiv(SubSeq(toks, 1, i - 1))
             r == TreeUnary(SubSeq(toks, i + 1, Len(toks)))
         IN  Annot(<<"BinOp", Annot(BinKind(toks[i].value[1]), toks[i].loc), l, r>>,
                   Cover(l.loc, r.loc))

\* the tree of a token sequence that is an AddSub: the last "+" or "-" that
\* splits it is the root, and "*" and "/" stay below it
TreeAddSub(toks) ==
    IF IsMulDiv(Kinds(toks)) THEN TreeMulDiv(toks)
    ELSE LET i == CHOOSE j \in 2..(Len(toks) - 1) :
                    /\ toks[j].value[1] \in {"Plus", "Minus"}
                    /\ IsMulDiv(Kinds(SubSeq(toks, j + 1, Len(toks))))
                    /\ IsAddSub(Kinds(SubSeq(toks, 1, j - 1)))
             l == TreeAddSub(SubSeq(toks, 1, i - 1))
             r == TreeMulDiv(SubSeq(toks, i + 1, Len(toks)))
         IN  Annot(<<"BinOp", Annot(BinKind(toks[i].value[1]), toks[i].loc), l, r>>,
                   Cover(l.loc, r.loc))

\* the value of a short literal as a number
RECURSIVE DigitsToInt(_)
DigitsToInt(d) == IF Len(d) = 0 THEN 0 ELSE 10 * DigitsToInt(Front(d)) + Last(d)

\* the value of a short i64 as a number
ToInt(v) == IF v.neg THEN 0 - DigitsToInt(v.mag) ELSE DigitsToInt(v.mag)

Abs(x) == IF x < 0 THEN 0 - x ELSE x

\* the quotient of l by r # 0 truncated toward zero: the q with l = q * r + m
\* where m is smaller than r in size and has the sign of l
TruncQuot(l, r) ==
    CHOOSE q \in (0 - Abs(l))..Abs(l) :
        \E m \in (0 - Abs(r))..Abs(r) :
            /\ l = q * r + m
            /\ Abs(m) < Abs(r)
            /\ m = 0 \/ (m < 0) = (l < 0)

RECURSIVE RefEval(_)
\* post-order evaluation over the integers, left operand first: the value,
\* or the first division whose right operand is zero
RefEval(a) ==
    IF a.value[1] = "Num" THEN [ok |-> TRUE, val |-> DigitsToInt(a.value[2])]
    ELSE IF a.value[1] = "UniOp"
    THEN LET e == RefEval(a.value[3])
         IN  IF ~e.ok THEN e
             ELSE IF a.value[2].value = "Minus" THEN [ok |-> TRUE, val |-> 0 - e.val]
             ELSE e
    ELSE LET l == RefEval(a.value[3])
             r == RefEval(a.value[4])
             k == a.value[2].value
         IN  IF ~l.ok THEN l
             ELSE IF ~r.ok THEN r
             ELSE IF k = "Add" THEN [ok |-> TRUE, val |-> l.val + r.val]
             ELSE IF k = "Sub" THEN [ok |-> TRUE, val |-> l.val - r.val]
             ELSE IF k = "Mul" THEN [ok |-> TRUE, val |-> l.val * r.val]
             ELSE IF r.val = 0 THEN [ok |-> FALSE, at |-> a]
             ELSE [ok |-> TRUE, val |-> TruncQuot(l.val, r.val)]

RECURSIVE Nodes(_)
\* the nodes of a tree
Nodes(a) ==
    IF a.value[1] = "Num" THEN {a}
    ELSE IF a.value[1] = "UniOp" THEN {a} \cup Nodes(a.value[3])
    ELSE {a} \cup Nodes(a.value[3]) \cup Nodes(a.value[4])

\* every literal of the tree has at most two digits, so that its values are
\* far inside the 64-bit range
Narrow(a) == \A n \in Nodes(a) : n.value[1] = "Num" => Len(n.value[2]) <= 2

\* a division of the tree that fails on its own: both operands have values
\* and the right one is zero
FailingDivs(a) ==
    {n \in Nodes(a) :
        /\ n.value[1] = "BinOp"
        /\ n.value[2].value = "Div"
        /\ \E c \in BOOLEAN :
            /\ eval(n.value[3], c).tag = "Ok"
            /\ eval(n.value[4], c) = [tag |-> "Ok", val |-> Zero]}

(***************************************************************************)
(* The claims.                                                             *)
(***************************************************************************)

\* C1 as stated: whenever eval fails with DivisionByZero, the error's span
\* is the span of the "/" operator token of the failing division, not the
\* span of the whole division.
C1_ErrorSpanIsOperatorSpan ==
    (Evaluated /\ result.tag = "Err") =>
        \E n \in FailingDivs(ast.ast) : result.err.loc = n.value[2].loc

\* C1 amended: whenever eval fails with DivisionByZero, the error's span is
\* the span of the whole failing division (the node's own span, which
\* covers both operands), and never the span of its "/" token.
C1_ErrorSpanIsNodeSpan ==
    (Evaluated /\ result.tag = "Err") =>
        /\ result.err.value = <<"DivisionByZero">>
        /\ \E n \in FailingDivs(ast.ast) : result.err.loc = n.loc
        /\ \A n \in FailingDivs(ast.ast) : result.err.loc # n.value[2].loc

\* C1 witness: "1/0" as a tree, evaluated: the error spans [0,3)
C1_Witness ==
    /\ Evaluated
    /\ ast.ast = Layout(<<"BinOp", "Div", <<"Num", <<1>>>>, <<"Num", <<0>>>>>>, 0)
    /\ result = [tag |-> "Err", err |-> Annot(<<"DivisionByZero">>, <<0, 3>>)]

\* C2 as stated: for the tokens the lexer produces from any line, every
\* Loc::merge call of the parser meets the assertion's condition, so
\* parsing never panics in merge.
C2_MergeNeverPanics == Parsed => ast.tag # "Panic"

NonParens(toks) == {i \in 1..Len(toks) : toks[i].value[1] \notin {"LParen", "RParen"}}

C4_ParseBuildsLeftAssocTree ==
    (Parsed /\ IsExpr(Kinds(tokens.tokens))) =>
        /\ ast.tag = "Ok"
        /\ ast.ast = TreeAddSub(tokens.tokens)
        /\ line = TestLine => ast.ast = TestAst

\* C5 as stated: for every line of digits, punctuation and white space only,
\* lex returns the tokens in order of appearance: a Number spanning each
\* maximal run of digits, a one-byte token for each punctuation byte,
\* nothing for white space.
C5_LexReturnsTokensInOrder ==
    (Lexed /\ \A i \in 1..Len(line) : line[i] \in ValidBytes) =>
        /\ tokens.tag = "Ok"
        /\ TokensMatch(line, tokens.tokens)

\* C6 as stated: if the line has a byte the lexer does not accept, lex
\* returns only InvalidChar(c) for the leftmost such byte c at [p, p+1),
\* and no tokens.
C6_LexFailsAtFirstInvalidByte ==
    (Lexed /\ \E i \in 1..Len(line) : line[i] \notin ValidBytes) =>
        LET p == Nth({i \in 1..Len(line) : line[i] \notin ValidBytes}, 1) - 1
        IN  /\ tokens.tag = "Err"
            /\ tokens.err = Annot(<<"InvalidChar", line[p + 1]>>, <<p, p + 1>>)
            /\ "tokens" \notin DOMAIN tokens

\* C7 as stated: when a complete expression is followed by a token that
\* does not continue it (such as the ")" of "1 + 2)"), parse fails with
\* RedundantExpression carrying that token; parse returns a tree only when
\* no token is left.
C7_LeftoverIsRedundantExpression ==
    Parsed =>
        /\ ast.tag = "Ok" => ast.rest = <<>>
        /\ \A k \in 1..(Len(tokens.tokens) - 1) :
            (/\ IsExpr(Kinds(SubSeq(tokens.tokens, 1, k)))
             /\ tokens.tokens[k + 1].value[1] \in {"Number", "LParen", "RParen"}) =>
                /\ ast.tag = "Err"
                /\ ast.err = <<"RedundantExpression", tokens.tokens[k + 1]>>

RECURSIVE RParens(_)
\* k closing parentheses
RParens(k) == IF k = 0 THEN <<>> ELSE Append(RParens(k - 1), "RParen")

\* C8 as stated: when the tokens end where the ")" matching an open "(" is
\* due (as in "(1 + 2"), parse fails with UnclosedOpenParen.
C8_MissingParenIsUnclosed ==
    (Parsed /\ \E k \in 1..Len(tokens.tokens) :
                    IsExpr(Kinds(tokens.tokens) \o RParens(k))) =>
        /\ ast.tag = "Err"
        /\ ast.err[1] = "UnclosedOpenParen"

\* C9: the error parse returns is never NotOperator: the NotOperator of a
\* tier's operator recognizer only ends that tier's loop.
C9_NeverNotOperator ==
    (Parsed /\ ast.tag = "Err") => ast.err[1] # "NotOperator"

\* C9 witness: both recognizers raise NotOperator on the token after a
\* complete expression, and parse returns RedundantExpression for it
C9_Witness ==
    /\ Parsed
    /\ ast.tag = "Err"
    /\ ast.err[1] = "RedundantExpression"
    /\ parse_expr2_op(<<ast.err[2]>>) = PErr(<<"NotOperator", ast.err[2]>>, <<ast.err[2]>>)
    /\ parse_expr3_op(<<ast.err[2]>>) = PErr(<<"NotOperator", ast.err[2]>>, <<ast.err[2]>>)

\* C10: for a tree whose values stay inside the 64-bit range, eval agrees
\* with post-order evaluation over the integers: same value (division
\* truncating toward zero), DivisionByZero exactly when a right operand
\* of "/" is zero, reported for the first such division left to right;
\* the tree of "1 + 2 * 3 - -10" evaluates to 17.
C10_EvalAgreesWithReference ==
    (Evaluated /\ Narrow(ast.ast)) =>
        /\ LET ref == RefEval(ast.ast)
           IN  IF ref.ok
               THEN result.tag = "Ok" /\ ToInt(result.val) = ref.val
               ELSE /\ result.tag = "Err"
                    /\ result.err.value = <<"DivisionByZero">>
                    /\ result.err.loc = ref.at.loc
        /\ ast.ast = TestAst => result = [tag |-> "Ok", val |-> SInt(FALSE, <<1, 7>>)]

\* C10 witness: a tree whose two operands both fail was evaluated, and the
\* error is the left operand's
C10_Witness ==
    /\ Evaluated
    /\ Narrow(ast.ast)
    /\ ast.ast.value[1] = "BinOp"
    /\ ~RefEval(ast.ast.value[3]).ok
    /\ ~RefEval(ast.ast.value[4]).ok
    /\ result.tag = "Err"
    /\ result.err.loc = ast.ast.value[3].loc

\* C11: evaluating a literal n (0 <= n < 2^64) yields the integer n
\* itself: the conversion from the unsigned literal to the signed result
\* never changes the value
C11_LiteralEvaluatesToItself ==
    (Evaluated /\ ast.ast.value[1] = "Num" /\ MagLe(ast.ast.value[2], U64Max)) =>
        result = [tag |-> "Ok", val |-> SInt(FALSE, ast.ast.value[2])]

====
